---- MODULE Spec2Model ----
(***************************************************************************)
(* Tiwut Terminal (src/main.py): a cmd.Cmd REPL over a directory tree.     *)
(*                                                                         *)
(* A path is a sequence of components read from "/".  A pathlib Path is a  *)
(* LEXICAL path: it keeps ".." components (pathlib never collapses them),  *)
(* and drops "." and empty components.  The file system itself is keyed by *)
(* CANONICAL paths (no ".."); the kernel reaches a canonical path from a   *)
(* lexical one by walking it component by component (Walk).                *)
(*                                                                         *)
(* An argument string is the sequence of its "/"-separated segments:       *)
(*   ""      = << >>            ".."   = <<"..">>                          *)
(*   "../"   = <<"..", "">>     "./.." = <<".", "..">>                     *)
(*   "/etc"  = <<"", "etc">>    "a/.." = <<"a", "..">>                     *)
(***************************************************************************)
EXTENDS Integers, Sequences, FiniteSets, TLC

\* ---------------------------------------------------------------- bounds
\* Directories and files are created at most MaxDepth levels below BASE_DIR.
MaxDepth == 2
\* The lexical current directory holds at most MaxExtra components after
\* BASE_DIR (cd a/.. repeated grows it without limit otherwise).
MaxExtra == 2
\* A copy writes at most MaxCopyDepth levels below BASE_DIR.
MaxCopyDepth == 3

\* ------------------------------------------------------------- constants
ROOT_DIR_NAME == "TiwutApps"
HOME == <<"root">>
BASE_DIR == HOME \o <<"Documents", ROOT_DIR_NAME>>
\* cat's size threshold, in bytes, and the number of lines it then shows
MAX_SIZE == 10 * 1024 * 1024
HEAD_LINES == 50
\* A name longer than NAME_MAX: every system call that walks onto it fails
\* with ENAMETOOLONG.
LongName == "LONG"

\* ------------------------------------------------------------ path algebra
Last(s) == s[Len(s)]
Front(s) == SubSeq(s, 1, Len(s) - 1)
IsPrefix(p, q) == Len(p) <= Len(q) /\ SubSeq(q, 1, Len(p)) = p
Parent(p) == IF p = << >> THEN << >> ELSE Front(p)
\* strict descendants of canonical path p among a set of canonical paths
Below(p, S) == {q \in S : IsPrefix(p, q) /\ q # p}
\* a directory listing that finds every directory empty
MutChildren(p, S) == {}
\* the entries of directory p
Children(p, S) == {q \in S : Len(q) = Len(p) + 1 /\ IsPrefix(p, q)}

\* pathlib's parsing of a string: "." and empty segments vanish, ".." stays
RECURSIVE PathParts(_)
PathParts(segs) ==
    IF segs = << >> THEN << >>
    ELSE IF Head(segs) \in {"", "."} THEN PathParts(Tail(segs))
    ELSE <<Head(segs)>> \o PathParts(Tail(segs))

IsAbsolute(arg) == Len(arg) >= 2 /\ arg[1] = ""

\* Path.__truediv__: an absolute right operand replaces the left one
Join(base, arg) ==
    IF IsAbsolute(arg) THEN PathParts(arg) ELSE base \o PathParts(arg)

\* PurePath.relative_to: purely lexical, fails (ValueError) unless the parts
\* of `other` are a prefix of the parts of `p`
RelativeToOk(p, other) == IsPrefix(other, p)
RelativeTo(p, other) == SubSeq(p, Len(other) + 1, Len(p))

\* PurePath.parent: the lexical parent, ".." is a component like any other
LexParent(p) == Parent(p)

\* ----------------------------------------------------- kernel path lookup
\* D: the set of directories, F: the files (a function path -> content).
\* Walk resolves a lexical path from canonical directory p.
RECURSIVE Walk(_, _, _, _)
Walk(D, F, p, rest) ==
    IF rest = << >> THEN [err |-> "OK", path |-> p]
    ELSE IF p \notin D
         THEN [err |-> IF p \in DOMAIN F THEN "ENOTDIR" ELSE "ENOENT", path |-> p]
    ELSE IF Head(rest) = LongName THEN [err |-> "ENAMETOOLONG", path |-> p]
    ELSE IF Head(rest) = ".." THEN Walk(D, F, Parent(p), Tail(rest))
    ELSE Walk(D, F, p \o <<Head(rest)>>, Tail(rest))

\* os.stat: the canonical path of an existing object, or an errno
Stat(D, F, lex) ==
    LET w == Walk(D, F, << >>, lex) IN
    IF w.err = "OK" /\ w.path \notin D /\ w.path \notin DOMAIN F
    THEN [err |-> "ENOENT", path |-> w.path]
    ELSE w

\* Path.exists(): stat errors ENOENT and ENOTDIR mean "no"; any other errno
\* is re-raised by pathlib up to Python 3.13 and swallowed by later ones.
ExistsOutcomes(D, F, lex) ==
    LET s == Stat(D, F, lex) IN
    IF s.err = "OK" THEN {"yes"}
    ELSE IF s.err \in {"ENOENT", "ENOTDIR"} THEN {"no"}
    ELSE {"raise", "no"}

IsDir(D, F, lex) == LET s == Stat(D, F, lex) IN s.err = "OK" /\ s.path \in D
IsFile(D, F, lex) == LET s == Stat(D, F, lex) IN s.err = "OK" /\ s.path \in DOMAIN F

\* the paths at which the model lets an object be created: at the level of
\* the root (its siblings) or below, at most MaxDepth levels under it
InBound(p) == Len(p) >= Len(BASE_DIR) /\ Len(p) <= Len(BASE_DIR) + MaxDepth

\* ------------------------------------------------------------ file system
\* File contents: an identity, a size in bytes, a number of lines, and
\* whether the bytes decode as UTF-8.
SmallText == [id |-> 1, size |-> 12, lines |-> 3, text |-> TRUE]
BigText   == [id |-> 2, size |-> MAX_SIZE + 1, lines |-> 60, text |-> TRUE]
Secret    == [id |-> 3, size |-> 7, lines |-> 1, text |-> TRUE]
Binary    == [id |-> 4, size |-> 20, lines |-> 1, text |-> FALSE]
\* a text of exactly the threshold size, and one above it with few lines
EdgeText  == [id |-> 5, size |-> MAX_SIZE, lines |-> 60, text |-> TRUE]
ShortBig  == [id |-> 6, size |-> MAX_SIZE + 1, lines |-> 3, text |-> TRUE]

\* What lies around the sandbox root when the program starts: the root's
\* ancestors, a file next to the root, and /etc.
OutsideDirs == {<< >>, HOME, HOME \o <<"Documents">>, <<"etc">>}
OutsideFiles == (HOME \o <<"Documents", "b">>) :> Secret

\* Contents of the root at start-up: _ensure_root_dir only guarantees that
\* the root exists, whatever is in it was put there by earlier sessions.
InitialTrees ==
    { [D |-> {}, F |-> (BASE_DIR \o <<"b">>) :> Binary],
      [D |-> {BASE_DIR \o <<"a">>},
       F |-> (BASE_DIR \o <<"b">>) :> SmallText
             @@ (BASE_DIR \o <<"a", "b">>) :> BigText] }

\* byte-wise order of the names in play (Python compares str by code point)
ByteOrder ==
    <<"-r", "A", "Documents", "LONG", "TiwutApps", "a", "b", "c", "etc", "root">>
Rank(n) == CHOOSE i \in 1..Len(ByteOrder) : ByteOrder[i] = n

\* a sort that gives the names in descending order
RECURSIVE MutSorted(_)
MutSorted(S) ==
    IF S = {} THEN << >>
    ELSE LET m == CHOOSE x \in S : \A y \in S : Rank(x) >= Rank(y)
         IN <<m>> \o MutSorted(S \ {m})

\* sorted(): the names of a set, ascending
RECURSIVE Sorted(_)
Sorted(S) ==
    IF S = {} THEN << >>
    ELSE LET m == CHOOSE x \in S : \A y \in S : Rank(x) <= Rank(y)
         IN <<m>> \o Sorted(S \ {m})

\* ------------------------------------------------------------------ state
VARIABLES
    dirs,           \* the directories of the file system (canonical paths)
    files,          \* the regular files: canonical path -> content
    current_dir,    \* self.current_dir, a lexical path
    lastcmd,        \* cmd.Cmd.lastcmd: the last non-empty line, or EmptyLine
    line,           \* the input line the loop read last
    styled_prompt,  \* self._styled_prompt: the display path it was built from
    shown,          \* the prompt printed last on the console
    msg,            \* the message the last handler printed
    io,             \* what the last handler read from the file system
    session         \* "AwaitingCommand", "Stopped" (loop left) or "Crashed"

vars == <<dirs, files, current_dir, lastcmd, line, styled_prompt, shown, msg,
          io, session>>

EmptyLine == [cmd |-> "", args |-> << >>]
NoIO == [kind |-> "none", path |-> << >>, names |-> << >>, types |-> << >>,
         id |-> 0, lines |-> 0]

\* _update_prompt: "~" at the root, else the path relative to the root
DisplayPath(cur) ==
    IF ~RelativeToOk(cur, BASE_DIR) THEN <<"ERROR_PATH">>
    ELSE IF RelativeTo(cur, BASE_DIR) = << >> THEN <<"~">>
    ELSE RelativeTo(cur, BASE_DIR)

\* __init__, _ensure_root_dir and preloop
Init ==
    /\ \E t \in InitialTrees :
          /\ dirs = OutsideDirs \cup {BASE_DIR} \cup t.D
          /\ files = OutsideFiles @@ t.F
    /\ current_dir = BASE_DIR
    /\ lastcmd = EmptyLine
    /\ line = EmptyLine
    /\ styled_prompt = DisplayPath(BASE_DIR)
    /\ shown = DisplayPath(BASE_DIR)
    /\ msg = "Intro"
    /\ io = NoIO
    /\ session = "AwaitingCommand"

\* ------------------------------------------------------- handler outcomes
\* What a handler leaves behind: the current directory, the file system,
\* the message it printed, what it read, and whether the loop goes on.
Eff(c, D, F, m, o, s) ==
    /\ current_dir' = c
    /\ dirs' = D
    /\ files' = F
    /\ msg' = m
    /\ io' = o
    /\ session' = s

\* the handler prints message m and returns None, nothing else changes
Say(m) == Eff(current_dir, dirs, files, m, NoIO, "AwaitingCommand")

\* an exception nobody catches leaves the handler, onecmd and cmdloop:
\* the interpreter prints the traceback and the process ends
Crash == Eff(current_dir, dirs, files, "Traceback", NoIO, "Crashed")

\* --------------------------------------------------------------- handlers
do_pwd(arg) == Say("Pwd")

do_ls(arg) ==
    LET target_path == IF arg # << >> THEN Join(current_dir, arg) ELSE current_dir
        p == Stat(dirs, files, target_path).path
        entries == Children(p, dirs \cup DOMAIN files)
        names == Sorted({Last(q) : q \in entries})
    IN \E e \in ExistsOutcomes(dirs, files, target_path) :
          CASE e = "raise" -> Crash
            [] e = "no" -> Say("NotFound")
            [] e = "yes" ->
                 IF ~IsDir(dirs, files, target_path) THEN Say("NotADirectory")
                 ELSE Eff(current_dir, dirs, files, "Listing",
                          [kind |-> "listing", path |-> p, names |-> names,
                           types |-> [i \in 1..Len(names) |->
                                        IF p \o <<names[i]>> \in dirs
                                        THEN "DIR" ELSE "FILE"],
                           id |-> 0, lines |-> 0],
                          "AwaitingCommand")

\* do_cd without the is_dir() half of its existence test
MutCdFound(e, target_path) == e = "yes"

\* the target must exist and be a directory
CdFound(e, target_path) == e = "yes" /\ IsDir(dirs, files, target_path)

do_cd(arg) ==
    IF arg = << >> THEN
        Eff(BASE_DIR, dirs, files, "CdRoot", NoIO, "AwaitingCommand")
    ELSE IF arg = <<"..">> /\ current_dir = BASE_DIR THEN
        Say("AtRootBoundary")
    ELSE
        LET target_path == IF arg = <<"..">> THEN LexParent(current_dir)
                           ELSE Join(current_dir, arg)
        IN \E e \in ExistsOutcomes(dirs, files, target_path) :
              IF e = "raise" THEN Say("Unexpected")
              ELSE IF ~CdFound(e, target_path) THEN Say("NotFound")
              ELSE IF ~RelativeToOk(target_path, BASE_DIR) THEN Say("AccessDenied")
              ELSE /\ Len(target_path) <= Len(BASE_DIR) + MaxExtra
                   /\ Eff(target_path, dirs, files, "CdOk", NoIO,
                          "AwaitingCommand")

\* os.mkdir
do_mkdir(arg) ==
    IF arg = << >> THEN Say("Usage")
    ELSE
        LET new_dir == Join(current_dir, arg)
            w == Walk(dirs, files, << >>, new_dir)
        IN IF w.err # "OK" THEN Say("ErrorCreating")
           ELSE IF w.path \in dirs \/ w.path \in DOMAIN files
                THEN Say("AlreadyExists")
           ELSE /\ InBound(w.path)
                /\ Eff(current_dir, dirs \cup {w.path}, files, "Created", NoIO,
                       "AwaitingCommand")

\* os.rmdir
do_rmdir(arg) ==
    IF arg = << >> THEN Say("Usage")
    ELSE
        LET target_dir == Join(current_dir, arg)
            s == Stat(dirs, files, target_dir)
        IN IF s.err = "ENOENT" THEN Say("NotFound")
           ELSE IF \/ s.err # "OK"
                   \/ s.path \notin dirs
                   \/ s.path = << >>
                   \/ Children(s.path, dirs \cup DOMAIN files) # {}
                THEN Say("NotEmptyOrDenied")
           ELSE Eff(current_dir, dirs \ {s.path}, files, "Removed", NoIO,
                    "AwaitingCommand")

\* ------------------------------------------------------ shutil on a tree
\* A tree is [D, F]; an operation on it returns [D, F, err], err telling
\* whether the operation raised.
Restrict(F, S) == [q \in S |-> F[q]]

\* shutil.rmtree: empties the directory, then os.rmdir(path) by name; when
\* the name no longer leads to the directory (it ran through what was just
\* deleted, as in "x/..") that last call raises and the directory stays.
RmTree(D, F, lex) ==
    LET p == Stat(D, F, lex).path
        D1 == D \ Below(p, D)
        F1 == Restrict(F, DOMAIN F \ Below(p, DOMAIN F))
        s1 == Stat(D1, F1, lex)
    IN IF s1.err = "OK" /\ s1.path = p /\ p # << >>
       THEN [D |-> D1 \ {p}, F |-> F1, err |-> FALSE]
       ELSE [D |-> D1, F |-> F1, err |-> TRUE]

\* shutil.copy2(src, dst): a dst that is a directory means dst/basename(src)
CopyFile(D, F, src, dst) ==
    LET sp == Stat(D, F, src).path
        d1 == IF IsDir(D, F, dst) THEN dst \o <<Last(src)>> ELSE dst
        t == Stat(D, F, d1)
        w == Walk(D, F, << >>, d1)
    IN IF t.err = "OK" /\ t.path = sp THEN [D |-> D, F |-> F, err |-> TRUE]
       ELSE IF w.err # "OK" \/ w.path \in D THEN [D |-> D, F |-> F, err |-> TRUE]
       ELSE [D |-> D, F |-> (w.path :> F[sp]) @@ F, err |-> FALSE]

\* os.makedirs(name, exist_ok)
RECURSIVE Makedirs(_, _, _, _)
Makedirs(D, F, lex, exist_ok) ==
    IF lex = << >> THEN [D |-> D, F |-> F, err |-> ~exist_ok]
    ELSE
        LET head == Front(lex)
            up == IF head # << >> /\ Stat(D, F, head).err # "OK"
                  THEN Makedirs(D, F, head, exist_ok)
                  ELSE [D |-> D, F |-> F, err |-> FALSE]
            w == Walk(up.D, up.F, << >>, lex)
        IN IF up.err THEN up
           ELSE IF w.err # "OK" THEN [D |-> up.D, F |-> up.F, err |-> TRUE]
           ELSE IF w.path \in up.D THEN [D |-> up.D, F |-> up.F, err |-> ~exist_ok]
           ELSE IF w.path \in DOMAIN up.F THEN [D |-> up.D, F |-> up.F, err |-> TRUE]
           ELSE [D |-> up.D \cup {w.path}, F |-> up.F, err |-> FALSE]

\* shutil.copytree(src, dst, dirs_exist_ok): the entries of src are listed
\* first, then dst is made, then the entries are copied one by one in the
\* order os.scandir gave them (any order); an entry that fails is recorded
\* and the others are still copied, the error is raised at the end.
RECURSIVE CopyTree(_, _, _, _, _), CopyEntries(_, _, _, _, _, _)
CopyTree(D, F, src, dst, exist_ok) ==
    LET sp == Stat(D, F, src).path
        todo == {[name |-> Last(q), dir |-> q \in D] :
                    q \in Children(sp, D \cup DOMAIN F)}
        made == Makedirs(D, F, dst, exist_ok)
    IN IF made.err THEN {made}
       ELSE CopyEntries(made, src, dst, exist_ok, todo, FALSE)

CopyEntries(t, src, dst, exist_ok, todo, failed) ==
    IF todo = {} THEN {[D |-> t.D, F |-> t.F, err |-> failed]}
    ELSE UNION {
           LET after == IF e.dir
                        THEN CopyTree(t.D, t.F, src \o <<e.name>>,
                                      dst \o <<e.name>>, exist_ok)
                        ELSE {CopyFile(t.D, t.F, src \o <<e.name>>,
                                       dst \o <<e.name>>)}
           IN UNION {CopyEntries(r, src, dst, exist_ok, todo \ {e},
                                 failed \/ r.err) : r \in after}
           : e \in todo}

\* every path the copy created is within the bounds
AllInBound(t) ==
    \A q \in (t.D \cup DOMAIN t.F) \ (dirs \cup DOMAIN files) :
        Len(q) >= Len(BASE_DIR) /\ Len(q) <= Len(BASE_DIR) + MaxCopyDepth

\* ------------------------------------------------------ handlers, continued
DashR == <<"-r">>

\* do_rm taking the first token for the target
MutTargetName(parts) == parts[1]

\* parts[-1]
target_name(parts) == Last(parts)

\* do_rm taking every removal for a recursive one
MutIsRecursive(parts) == TRUE

\* '-r' in parts
is_recursive(parts) == \E i \in 1..Len(parts) : parts[i] = DashR

do_rm(parts) ==
    IF parts = << >> THEN Say("Usage")
    ELSE
        LET target_path == Join(current_dir, target_name(parts))
            p == Stat(dirs, files, target_path).path
            gone == RmTree(dirs, files, target_path)
        IN \E e \in ExistsOutcomes(dirs, files, target_path) :
              CASE e = "raise" -> Crash
                [] e = "no" -> Say("NotFound")
                [] e = "yes" ->
                     IF IsFile(dirs, files, target_path) THEN
                         Eff(current_dir, dirs,
                             Restrict(files, DOMAIN files \ {p}),
                             "FileRemoved", NoIO, "AwaitingCommand")
                     ELSE IF is_recursive(parts) THEN
                         Eff(current_dir, gone.D, gone.F,
                             IF gone.err THEN "Unexpected" ELSE "TreeRemoved",
                             NoIO, "AwaitingCommand")
                     ELSE Say("IsADirectory")

do_cp(args) ==
    IF Len(args) # 2 THEN Say("Usage")
    ELSE
        LET source == args[1]
            destination == args[2]
            source_path == Join(current_dir, source)
            destination_path == Join(current_dir, destination)
            Done(r, okmsg) ==
                /\ AllInBound(r)
                /\ Eff(current_dir, r.D, r.F,
                       IF r.err THEN "Unexpected" ELSE okmsg, NoIO,
                       "AwaitingCommand")
        IN \E e \in ExistsOutcomes(dirs, files, source_path) :
              CASE e = "raise" -> Crash
                [] e = "no" -> Say("SourceNotFound")
                [] e = "yes" ->
                     IF IsFile(dirs, files, source_path) THEN
                         Done(CopyFile(dirs, files, source_path, destination_path),
                              "FileCopied")
                     ELSE
                         \E d \in ExistsOutcomes(dirs, files, destination_path) :
                            IF d = "raise" THEN Say("Unexpected")
                            ELSE IF d = "yes" /\ IsDir(dirs, files, destination_path)
                            THEN \E r \in CopyTree(dirs, files, source_path,
                                                   Join(destination_path, source),
                                                   TRUE) :
                                     Done(r, "DirCopiedInto")
                            ELSE \E r \in CopyTree(dirs, files, source_path,
                                                   destination_path, FALSE) :
                                     Done(r, "DirCopied")

\* do_cat counting 50 lines whatever the file holds
MutMin(a, b) == a

\* range(50) readline() calls give the lines there are, at most 50
Min(a, b) == IF a < b THEN a ELSE b

do_cat(arg) ==
    IF arg = << >> THEN Say("Usage")
    ELSE
        LET target_path == Join(current_dir, arg)
            p == Stat(dirs, files, target_path).path
            Show(kind, n) ==
                Eff(current_dir, dirs, files, kind,
                    [kind |-> "content", path |-> p, names |-> << >>,
                     types |-> << >>, id |-> files[p].id, lines |-> n],
                    "AwaitingCommand")
        IN \E e \in ExistsOutcomes(dirs, files, target_path) :
              CASE e = "raise" -> Crash
                [] e = "no" -> Say("NotFound")
                [] e = "yes" ->
                     IF ~IsFile(dirs, files, target_path) THEN Say("NotFound")
                     ELSE IF files[p].size > MAX_SIZE THEN
                         \* the warning is printed, then 50 readline() calls
                         \/ Show("PartialContent", Min(HEAD_LINES, files[p].lines))
                         \/ ~files[p].text /\ Say("NotText")
                     ELSE IF files[p].text THEN Show("Content", files[p].lines)
                     ELSE Say("NotText")

do_exit(arg) == Eff(current_dir, dirs, files, "Goodbye", NoIO, "Stopped")

\* cmd.Cmd.do_help, help_commands
do_help(arg) == Say("Help")

\* cmd.Cmd.default: "*** Unknown syntax"
default(l) == Say("UnknownSyntax")

\* --------------------------------------------------------------- the REPL
\* the argument string of a line that holds at most one word after the
\* command name
Arg(l) == IF l.args = << >> THEN << >> ELSE l.args[1]

\* cmd.Cmd.onecmd: getattr(self, 'do_' + cmd)
Dispatch(l) ==
    CASE l.cmd = "pwd" -> do_pwd(Arg(l))
      [] l.cmd = "ls" -> do_ls(Arg(l))
      [] l.cmd = "cd" -> do_cd(Arg(l))
      [] l.cmd = "mkdir" -> do_mkdir(Arg(l))
      [] l.cmd = "rmdir" -> do_rmdir(Arg(l))
      [] l.cmd = "rm" -> do_rm(l.args)
      [] l.cmd = "cp" -> do_cp(l.args)
      [] l.cmd = "cat" -> do_cat(Arg(l))
      [] l.cmd = "help" -> do_help(Arg(l))
      [] l.cmd \in {"exit", "quit", "EOF"} -> do_exit(Arg(l))
      [] OTHER -> default(l)

\* One turn of cmdloop on a non-empty line: precmd (which rebuilds the
\* prompt from the current directory as it is BEFORE the command), then
\* TiwutTerminal.onecmd: precmd again, cmd.Cmd.onecmd, and the prompt is
\* printed unless the handler asked to stop.
OneCmd(l) ==
    /\ line' = l
    /\ styled_prompt' = DisplayPath(current_dir)
    /\ lastcmd' = IF l.cmd = "EOF" THEN EmptyLine ELSE l
    /\ Dispatch(l)
    /\ shown' = IF session' = "AwaitingCommand" THEN styled_prompt' ELSE shown

\* cmd.Cmd.emptyline, not overridden: repeats the last non-empty command
\* through self.onecmd
emptyline ==
    IF lastcmd = EmptyLine
    THEN Eff(current_dir, dirs, files, "None", NoIO, "AwaitingCommand")
    ELSE Dispatch(lastcmd)

\* ----------------------------------------------------------------- inputs
\* argument strings typed after a command, as "/"-separated segments
Up == <<"..">>
CdArgs ==
    { <<"a">>, <<"b">>, Up, <<"..", "">>, <<".", "..">>, <<"a", "..">>,
      <<"", "etc">>, <<LongName>> }
MkdirArgs == { <<"a">>, <<"..", "a">> }
RmdirArgs == { <<"a">>, <<".">> }
RmArgs ==
    { << >>, << <<"b">> >>, << <<"..", "b">> >>, << <<LongName>> >>,
      <<DashR, <<"a">> >>, <<DashR, <<".">> >> }
CpArgs == { << <<"b">> >>, << <<"b">>, <<"..", "a">> >> }
LsArgs == { << >>, Up }
CatArgs == { <<"b">>, <<"..", "b">> }

Words(arg) == IF arg = << >> THEN << >> ELSE <<arg>>

\* ---------------------------------------------------------------- actions
\* cmdloop: `while not stop`, one line read per turn
Reading == session = "AwaitingCommand"

Pwd ==
    /\ Reading
    /\ OneCmd([cmd |-> "pwd", args |-> << >>])
Ls ==
    /\ Reading
    /\ \E a \in LsArgs : OneCmd([cmd |-> "ls", args |-> Words(a)])
Cd ==
    /\ Reading
    /\ \E a \in CdArgs \cup {<< >>} : OneCmd([cmd |-> "cd", args |-> Words(a)])
Mkdir ==
    /\ Reading
    /\ \E a \in MkdirArgs \cup {<< >>} : OneCmd([cmd |-> "mkdir", args |-> Words(a)])
Rmdir ==
    /\ Reading
    /\ \E a \in RmdirArgs \cup {<< >>} : OneCmd([cmd |-> "rmdir", args |-> Words(a)])
Rm ==
    /\ Reading
    /\ \E a \in RmArgs : OneCmd([cmd |-> "rm", args |-> a])
Cp ==
    /\ Reading
    /\ \E a \in CpArgs : OneCmd([cmd |-> "cp", args |-> a])
Cat ==
    /\ Reading
    /\ \E a \in CatArgs \cup {<< >>} : OneCmd([cmd |-> "cat", args |-> Words(a)])
Help ==
    /\ Reading
    /\ OneCmd([cmd |-> "help", args |-> << >>])
\* exit, quit, and the line "EOF" that cmdloop makes of the end of input
Exit ==
    /\ Reading
    /\ \E c \in {"exit", "quit", "EOF"} : OneCmd([cmd |-> c, args |-> << >>])
Unknown ==
    /\ Reading
    /\ OneCmd([cmd |-> "frobnicate", args |-> << >>])

\* an empty or whitespace-only line: TiwutTerminal.onecmd prints the prompt
\* and returns self.emptyline()
Blank ==
    /\ Reading
    /\ line' = EmptyLine
    /\ styled_prompt' = DisplayPath(current_dir)
    /\ shown' = styled_prompt'
    /\ UNCHANGED lastcmd
    /\ emptyline

Next ==
    \/ Pwd \/ Ls \/ Cd \/ Mkdir \/ Rmdir \/ Rm \/ Cp \/ Cat
    \/ Help \/ Exit \/ Unknown \/ Blank

Spec == Init /\ [][Next]_vars

\* ------------------------------------------------ file operations at the root
\* A second specification: the session stays at the root and runs ls, rm, cp
\* and cat on trees that hold nested directories.
OpsTrees ==
    { [D |-> {BASE_DIR \o <<"a">>, BASE_DIR \o <<"a", "a">>,
              BASE_DIR \o <<"c">>, BASE_DIR \o <<"c", "a">>},
       F |-> (BASE_DIR \o <<"a", "b">>) :> ShortBig
             @@ (BASE_DIR \o <<"c", "a", "a">>) :> SmallText
             @@ (BASE_DIR \o <<"b">>) :> EdgeText
             @@ (BASE_DIR \o <<"-r">>) :> Binary],
      [D |-> {BASE_DIR \o <<"a">>, BASE_DIR \o <<"a", "b">>,
              BASE_DIR \o <<"c">>},
       F |-> (BASE_DIR \o <<"a", "a">>) :> SmallText
             @@ (BASE_DIR \o <<"b">>) :> BigText
             @@ (BASE_DIR \o <<"A">>) :> SmallText] }

InitOps ==
    /\ \E t \in OpsTrees :
          /\ dirs = OutsideDirs \cup {BASE_DIR} \cup t.D
          /\ files = OutsideFiles @@ t.F
    /\ current_dir = BASE_DIR
    /\ lastcmd = EmptyLine
    /\ line = EmptyLine
    /\ styled_prompt = DisplayPath(BASE_DIR)
    /\ shown = DisplayPath(BASE_DIR)
    /\ msg = "Intro"
    /\ io = NoIO
    /\ session = "AwaitingCommand"

OpsLsArgs == { << >>, <<"a">>, <<"b">>, <<"c">> }
OpsCatArgs == { <<"b">>, <<"a", "a">>, <<"a", "b">>, <<"c">> }
OpsRmArgs ==
    { << >>, << <<"a">> >>, << <<"c">> >>, << <<"a">>, <<"b">> >>,
      <<DashR>>, << <<"b">>, DashR >>, <<DashR, <<"a">> >>,
      <<DashR, <<"a", "..">> >> }
OpsCpArgs ==
    { << <<"a">>, <<"c">> >>, << <<"a", "b">>, <<"c">> >>,
      << <<"a">>, <<"a">> >>, << <<"a">>, <<"b">> >>,
      << <<"b">>, <<"a">> >>, << <<"b">>, <<"a", "b">> >>,
      << <<"b">>, <<"c", "b">> >> }

LsOps ==
    /\ Reading
    /\ \E a \in OpsLsArgs : OneCmd([cmd |-> "ls", args |-> Words(a)])
CatOps ==
    /\ Reading
    /\ \E a \in OpsCatArgs : OneCmd([cmd |-> "cat", args |-> Words(a)])
RmOps ==
    /\ Reading
    /\ \E a \in OpsRmArgs : OneCmd([cmd |-> "rm", args |-> a])
CpOps ==
    /\ Reading
    /\ \E a \in OpsCpArgs : OneCmd([cmd |-> "cp", args |-> a])

NextOps == LsOps \/ CatOps \/ RmOps \/ CpOps

SpecOps == InitOps /\ [][NextOps]_vars

\* ================================================================= claims
\* The canonical form of a lexical path, ".." resolved without looking at
\* the file system (what os.path.normpath gives)
RECURSIVE Normal(_, _)
Normal(p, rest) ==
    IF rest = << >> THEN p
    ELSE IF Head(rest) = ".." THEN Normal(Parent(p), Tail(rest))
    ELSE Normal(p \o <<Head(rest)>>, Tail(rest))
Canon(lex) == Normal(<< >>, lex)

\* canonical path p is the sandbox root or lies below it
InsideRoot(p) == IsPrefix(BASE_DIR, p)
\* a step in which do_cd runs on argument a: the line "cd <a>" is typed, or
\* an empty line repeats it
CdLine(a) == [cmd |-> "cd", args |-> Words(a)]
CdStep(a) ==
    \/ Reading /\ OneCmd(CdLine(a))
    \/ Blank /\ lastcmd = CdLine(a)
\* levels between the root and the canonical current directory
Depth(cur) == Len(Canon(cur)) - Len(BASE_DIR)
SameFs == dirs' = dirs /\ files' = files
\* what exists outside the sandbox root
OutsideOf(S) == {q \in S : ~InsideRoot(q)}

\* C1: after any sequence of commands the current directory, in canonical
\* form, is the sandbox root or a descendant of it.
C1_CurrentInsideRoot == InsideRoot(Canon(current_dir))

\* C2: no sequence of commands creates, removes or overwrites a file or a
\* directory outside the sandbox root.
C2_OutsideUntouched ==
    /\ OutsideOf(dirs) = OutsideDirs
    /\ OutsideOf(DOMAIN files) = DOMAIN OutsideFiles
    /\ \A q \in DOMAIN OutsideFiles : files[q] = OutsideFiles[q]

\* C3: ls and cat never return a listing or file content taken from
\* outside the sandbox root.
C3_NoReadOutside == io.kind # "none" => InsideRoot(io.path)

\* C4: in every reachable state the current directory is an existing
\* directory.
C4_CurrentExists == IsDir(dirs, files, current_dir)

\* C5: an empty input line is a no-op: it leaves the current directory and
\* the file system unchanged, runs no handler (nothing is printed but the
\* prompt) and the session keeps awaiting the next command.
C5_EmptyLineNoOp ==
    [][Blank => /\ current_dir' = current_dir
                /\ SameFs
                /\ msg' = "None"
                /\ session' = "AwaitingCommand"]_vars

\* C6: while the session awaits a command, the prompt on the console shows
\* the display path of the current directory as it is now.
C6_PromptShowsCurrent ==
    session = "AwaitingCommand" => shown = DisplayPath(current_dir)

C7_CdTarget(a) == IF a = Up THEN LexParent(current_dir) ELSE Join(current_dir, a)

\* C7: a cd either succeeds, and then the current directory is the target
\* the handler resolved and an existing directory, or fails with one of its
\* error messages, and then the current directory is what it was; cd with
\* no argument succeeds and sets the current directory to the root.  No cd
\* touches the file system or ends the session.
C7_CdAllOrNothing ==
    [][\A a \in CdArgs \cup {<< >>} : CdStep(a) =>
          /\ SameFs /\ session' = "AwaitingCommand"
          /\ msg' \in {"CdRoot", "CdOk", "AtRootBoundary", "AccessDenied",
                       "NotFound", "Unexpected"}
          /\ (a = << >>) = (msg' = "CdRoot")
          /\ msg' = "CdRoot" => current_dir' = BASE_DIR
          /\ msg' = "CdOk" => /\ current_dir' = C7_CdTarget(a)
                              /\ IsDir(dirs', files', current_dir')
          /\ msg' \notin {"CdRoot", "CdOk"} => current_dir' = current_dir]_vars

\* C7 witness: a cd refused with AccessDenied below the root, the current
\* directory kept
C7_Witness ==
    /\ line = CdLine(<<"", "etc">>)
    /\ msg = "AccessDenied"
    /\ current_dir = BASE_DIR \o <<"a">>

\* C8: with the current directory at the sandbox root, a cd to the parent,
\* however spelled, fails with AtRootBoundary and leaves it at the root.
C8_ParentOfRootRefused ==
    [][\A a \in {Up, <<"..", "">>, <<".", "..">>} :
          (CdStep(a) /\ Canon(current_dir) = BASE_DIR) =>
              (msg' = "AtRootBoundary" /\ current_dir' = current_dir)]_vars

\* C9: from a current directory d >= 1 levels below the root, `cd ..`
\* succeeds and leads to the directory d - 1 levels below the root (so the
\* root is reached after exactly d steps, never leaving it); at the root
\* (d = 0) `cd ..` fails and changes nothing.
C9_CdUpCountsDown ==
    [][(CdStep(Up) /\ InsideRoot(Canon(current_dir))
                   /\ IsDir(dirs, files, current_dir)) =>
          IF Depth(current_dir) = 0
          THEN msg' # "CdOk" /\ current_dir' = current_dir
          ELSE /\ msg' = "CdOk"
               /\ Canon(current_dir') = Parent(Canon(current_dir))]_vars

\* C10: the loop stops if and only if the line is exit, quit or EOF; every
\* other line leaves the session awaiting the next command, and an unknown
\* command changes neither the current directory nor the file system.
C10_OnlyExitStops ==
    [][/\ Exit => session' = "Stopped"
       /\ ~Exit => session' = "AwaitingCommand"
       /\ Unknown => (current_dir' = current_dir /\ SameFs)]_vars

\* ------------------------------------------------ claims on file operations
\* steps in which the named handler runs on the given tokens
RmStep(parts) == Reading /\ OneCmd([cmd |-> "rm", args |-> parts])
CpStep(args) == Reading /\ OneCmd([cmd |-> "cp", args |-> args])
\* the messages with which mkdir, rmdir, rm and cp report success
Succeeded ==
    {"Created", "Removed", "FileRemoved", "TreeRemoved", "FileCopied",
     "DirCopied", "DirCopiedInto"}
\* canonical path of an existing object named from the current directory
Here(arg) == Stat(dirs, files, Join(current_dir, arg)).path
\* the objects at or below canonical path p
Subtree(p, S) == {q \in S : IsPrefix(p, q)}

\* C11: whenever mkdir, rmdir, rm without -r or cp (of a file or of a
\* directory) reports an error, the file system after the command is the
\* file system before it.
C11_FailedOpChangesNothing ==
    [][(/\ line'.cmd \in {"mkdir", "rmdir", "rm", "cp"}
        /\ ~(line'.cmd = "rm" /\ \E i \in DOMAIN line'.args :
                                      line'.args[i] = DashR)
        /\ msg' \notin Succeeded) => SameFs]_vars

\* C12: a cp of a directory src to an existing directory dst that reports
\* success leaves, at dst/<last component of src>, a directory that holds
\* every directory and file of src with the same content.
C12_DirCopiedUnderBaseName ==
    [][\A a \in OpsCpArgs :
          (/\ CpStep(a)
           /\ IsDir(dirs, files, Join(current_dir, a[1]))
           /\ IsDir(dirs, files, Join(current_dir, a[2]))
           /\ msg' \in Succeeded) =>
              LET sp == Here(a[1])
                  tp == Here(a[2]) \o <<Last(PathParts(a[1]))>>
                  Image(q) == tp \o RelativeTo(q, sp)
              IN /\ tp \in dirs'
                 /\ \A q \in Below(sp, dirs) : Image(q) \in dirs'
                 /\ \A q \in Below(sp, DOMAIN files) :
                       /\ Image(q) \in DOMAIN files'
                       /\ files'[Image(q)] = files[q]]_vars

\* C13: a cp of a regular file src to dst that reports success leaves, at
\* the path dst itself, a file with the content of src, whatever was at dst
\* before (nothing, a file, a directory).
C13_FileCopiedToLiteralDst ==
    [][\A a \in OpsCpArgs \cup CpArgs :
          (/\ Len(a) = 2 /\ CpStep(a)
           /\ IsFile(dirs, files, Join(current_dir, a[1]))
           /\ msg' \in Succeeded) =>
              LET sp == Here(a[1])
                  dp == Walk(dirs, files, << >>, Join(current_dir, a[2])).path
              IN /\ dp \in DOMAIN files'
                 /\ files'[dp] = files[sp]]_vars

\* C14: a cp of a directory src to an existing directory dst keeps every
\* directory that was under dst, keeps with its content every file that was
\* under dst and is not the image of a file of src, and leaves the tree of
\* src as it was.
C14_DirCopyAdditive ==
    [][\A a \in OpsCpArgs :
          (/\ CpStep(a)
           /\ IsDir(dirs, files, Join(current_dir, a[1]))
           /\ IsDir(dirs, files, Join(current_dir, a[2]))) =>
              LET sp == Here(a[1])
                  dp == Here(a[2])
                  tp == Walk(dirs, files, << >>,
                             Join(Join(current_dir, a[2]), a[1])).path
                  Written == {tp \o RelativeTo(q, sp) :
                                 q \in Below(sp, DOMAIN files)}
              IN /\ Subtree(dp, dirs) \subseteq dirs'
                 /\ \A q \in Subtree(dp, DOMAIN files) \ Written :
                       q \in DOMAIN files' /\ files'[q] = files[q]
                 /\ Subtree(sp, dirs') = Subtree(sp, dirs)
                 /\ Subtree(sp, DOMAIN files') = Subtree(sp, DOMAIN files)
                 /\ \A q \in Subtree(sp, DOMAIN files) :
                       files'[q] = files[q]]_vars

\* C15: rm without -r on a directory, empty or not, prints the "cannot
\* remove directory" message and changes nothing; rm on a name that the
\* file system does not hold prints "not found" and changes nothing.
C15_RmPlainKeepsDirs ==
    [][\A a \in OpsRmArgs \cup RmArgs :
          (a # << >> /\ RmStep(a)) =>
              LET s == Stat(dirs, files, Join(current_dir, Last(a)))
              IN /\ (s.err = "OK" /\ s.path \in dirs /\ DashR \notin {a[i] : i \in DOMAIN a})
                       => (msg' = "IsADirectory" /\ SameFs)
                 /\ s.err \in {"ENOENT", "ENOTDIR"}
                       => (msg' = "NotFound" /\ SameFs)]_vars

\* C15 witness: rm a, without -r, refused on the directory a that holds
\* entries
C15_Witness ==
    /\ line = [cmd |-> "rm", args |-> << <<"a">> >>]
    /\ msg = "IsADirectory"
    /\ Children(BASE_DIR \o <<"a">>, dirs \cup DOMAIN files) # {}

\* C16: rm -r on an existing directory reports success and removes the
\* directory with everything below it and nothing else; rm on an existing
\* regular file, with or without -r, removes that file and nothing else.
C16_RmRemovesTarget ==
    [][\A a \in OpsRmArgs \cup RmArgs :
          (a # << >> /\ RmStep(a)) =>
              LET s == Stat(dirs, files, Join(current_dir, Last(a)))
                  p == s.path
              IN /\ (s.err = "OK" /\ p \in dirs /\ DashR \in {a[i] : i \in DOMAIN a})
                       => /\ msg' = "TreeRemoved"
                          /\ dirs' = dirs \ Subtree(p, dirs)
                          /\ files' = Restrict(files, DOMAIN files
                                                  \ Subtree(p, DOMAIN files))
                 /\ (s.err = "OK" /\ p \in DOMAIN files)
                       => /\ msg' = "FileRemoved"
                          /\ dirs' = dirs
                          /\ files' = Restrict(files, DOMAIN files \ {p})]_vars

\* ------------------------------------------------- claims on mkdir and rmdir
MkdirLine(x) == [cmd |-> "mkdir", args |-> <<x>>]
MkdirStep(x) == Reading /\ OneCmd(MkdirLine(x))
RmdirStep(x) == Reading /\ OneCmd([cmd |-> "rmdir", args |-> <<x>>])

\* C17: mkdir X on a name X that does not exist, in an existing directory,
\* creates the directory X and nothing else; rmdir X right after it removes
\* X again, so that the file system is what it was before the mkdir.  mkdir
\* on an existing X prints "already exists" and changes nothing; rmdir on a
\* directory that holds entries fails and changes nothing.
C17_MkdirRmdirRoundTrip ==
    [][/\ \A x \in MkdirArgs : MkdirStep(x) =>
             LET w == Walk(dirs, files, << >>, Join(current_dir, x))
             IN /\ current_dir' = current_dir
                /\ (w.err = "OK" /\ w.path \notin dirs \cup DOMAIN files)
                      => /\ msg' = "Created"
                         /\ dirs' = dirs \cup {w.path} /\ files' = files
                /\ (w.err = "OK" /\ w.path \in dirs \cup DOMAIN files)
                      => (msg' = "AlreadyExists" /\ SameFs)
       /\ \A x \in RmdirArgs : RmdirStep(x) =>
             LET s == Stat(dirs, files, Join(current_dir, x))
             IN /\ (line = MkdirLine(x) /\ msg = "Created")
                      => /\ msg' = "Removed"
                         /\ dirs' = dirs \ {s.path} /\ files' = files
                         /\ s.path \in dirs
                /\ (/\ s.err = "OK" /\ s.path \in dirs
                    /\ \E q \in dirs \cup DOMAIN files :
                          q # s.path /\ IsPrefix(s.path, q))
                      => (msg' # "Removed" /\ SameFs)]_vars

\* C17 witness: at the root of the tree that came without a directory a,
\* rmdir a has removed the a that mkdir a made
C17_Witness ==
    /\ line = [cmd |-> "rmdir", args |-> << <<"a">> >>]
    /\ msg = "Removed"
    /\ current_dir = BASE_DIR
    /\ BASE_DIR \o <<"a">> \notin dirs
    /\ BASE_DIR \o <<"b">> \in DOMAIN files
    /\ files[BASE_DIR \o <<"b">>] = Binary

\* ---------------------------------------------------- claims on cat and ls
CatStep(x) == Reading /\ OneCmd([cmd |-> "cat", args |-> <<x>>])
LsStep(x) == Reading /\ OneCmd([cmd |-> "ls", args |-> Words(x)])

\* C18: cat on a file that decodes as text shows the first min(50, number
\* of lines) lines, under the size warning, exactly when the file is larger
\* than 10 MiB (10 * 1024 * 1024 bytes); a file of at most 10 MiB is shown
\* whole.
C18_CatTruncatesAboveTenMiB ==
    [][\A x \in OpsCatArgs \cup CatArgs :
          (/\ CatStep(x)
           /\ IsFile(dirs, files, Join(current_dir, x))
           /\ files[Here(x)].text) =>
              LET f == files[Here(x)]
              IN /\ io'.kind = "content" /\ io'.id = f.id
                 /\ IF f.size > 10 * 1024 * 1024
                    THEN /\ msg' = "PartialContent"
                         /\ io'.lines = IF f.lines < 50 THEN f.lines ELSE 50
                    ELSE /\ msg' = "Content"
                         /\ io'.lines = f.lines]_vars

\* C18 witness: a text above 10 MiB that holds 3 lines, shown partially:
\* 3 lines
C18_Witness ==
    /\ line.cmd = "cat"
    /\ msg = "PartialContent"
    /\ io.id = ShortBig.id
    /\ io.lines = 3

\* C19: ls on an existing directory lists exactly its entries, each once,
\* in ascending byte-wise order of name (upper case before lower case); ls
\* on a target that does not exist prints "not found" and ls on a file
\* prints "not a directory", and neither lists anything.  ls changes
\* nothing.
C19_LsSortedExact ==
    [][\A x \in OpsLsArgs \cup LsArgs : LsStep(x) =>
          LET s == Stat(dirs, files, Join(current_dir, x))
              entries == {q \in dirs \cup DOMAIN files :
                            q # s.path /\ Parent(q) = s.path}
              names == io'.names
          IN /\ SameFs /\ current_dir' = current_dir
             /\ (s.err = "OK" /\ s.path \in dirs)
                   => /\ msg' = "Listing" /\ io'.kind = "listing"
                      /\ Len(names) = Cardinality(entries)
                      /\ {names[i] : i \in 1..Len(names)}
                            = {Last(q) : q \in entries}
                      /\ \A i \in 1..Len(names) - 1 :
                            Rank(names[i]) < Rank(names[i + 1])
             /\ (s.err = "OK" /\ s.path \in DOMAIN files)
                   => (msg' = "NotADirectory" /\ io' = NoIO)
             /\ s.err \in {"ENOENT", "ENOTDIR"}
                   => (msg' = "NotFound" /\ io' = NoIO)]_vars

\* C19 witness: the root that holds A, a, b and c is listed in that order
C19_Witness ==
    /\ line = [cmd |-> "ls", args |-> << >>]
    /\ msg = "Listing"
    /\ io.names = <<"A", "a", "b", "c">>

\* ----------------------------------------------------- claim on rm's tokens
\* C20: rm acts on one path, the one its LAST token names, and removes
\* recursively exactly when some token is -r.  Whatever the tokens, nothing
\* outside the tree of that path changes and nothing is created; a file
\* named by the last token is removed; a directory named by it is emptied
\* when -r is among the tokens and untouched when it is not (so `rm a b`
\* never removes a, and `rm -r` and `rm b -r` aim at the name "-r"); rm
\* with no token prints the usage line and changes nothing.
C20_RmLastTokenOnly ==
    [][\A a \in OpsRmArgs \cup RmArgs : RmStep(a) =>
          IF a = << >> THEN msg' = "Usage" /\ SameFs
          ELSE
              LET s == Stat(dirs, files, Join(current_dir, Last(a)))
                  p == s.path
                  flag == \E i \in DOMAIN a : a[i] = DashR
                  Rest(S) == S \ Subtree(p, S)
              IN /\ s.err # "OK" => SameFs
                 /\ dirs' \subseteq dirs /\ DOMAIN files' \subseteq DOMAIN files
                 /\ Rest(dirs') = Rest(dirs)
                 /\ Rest(DOMAIN files') = Rest(DOMAIN files)
                 /\ \A q \in DOMAIN files' : files'[q] = files[q]
                 /\ (s.err = "OK" /\ p \in DOMAIN files)
                       => p \notin DOMAIN files'
                 /\ (s.err = "OK" /\ p \in dirs /\ flag)
                       => /\ Below(p, dirs') = {}
                          /\ Below(p, DOMAIN files') = {}
                 /\ (s.err = "OK" /\ p \in dirs /\ ~flag) => SameFs]_vars

\* C20 witness: rm a b has removed the file b and kept the directory a
\* with what it holds
C20_Witness ==
    /\ line = [cmd |-> "rm", args |-> << <<"a">>, <<"b">> >>]
    /\ msg = "FileRemoved"
    /\ BASE_DIR \o <<"b">> \notin DOMAIN files
    /\ BASE_DIR \o <<"a">> \in dirs
    /\ Children(BASE_DIR \o <<"a">>, dirs \cup DOMAIN files) # {}
====
